---- MODULE Spec2Model ----
(***************************************************************************)
(* The OPT pseudo-record codec of dns/src/record/opt.rs: OPT::read parses  *)
(* a record from a byte cursor, OPT::to_bytes serialises one into a fresh  *)
(* Vec<u8>.  Both are modelled as whole operations over byte sequences;    *)
(* the integers keep their widths (u8, u16).                               *)
(***************************************************************************)
EXTENDS Integers, Sequences, FiniteSets, TLC

(* ------------------------------ bounds -------------------------------- *)

\* longest payload of the small records and inputs that are enumerated
MaxLen == 2
\* the large records have 65535, ..., 65535 + MaxOver payload bytes
MaxOver == 2
\* bytes the caller has already consumed before handing the cursor over
MaxSkip == 1
\* bytes that follow an encoding in the buffer handed to read
MaxExtra == 1

(* ----------------------------- integers ------------------------------- *)

U8Mod == 256
U16Mod == 65536

\* as_u16 with the cast to the wrong width
as_u8(n) == n % U8Mod

\* as_u16 saturating where the cast wraps
as_u16_saturating(n) == IF n > U16Mod - 1 THEN U16Mod - 1 ELSE n

\* `x as u16`
as_u16(n) == n % U16Mod

\* values the enumerated fields and bytes are drawn from
U16Vals == {0, 3, 1452, U16Mod - 1}
U8Vals == {0, U8Mod - 1}
ByteVals == {171, 205}

Min(a, b) == IF a < b THEN a ELSE b

(* ------------------------------ values -------------------------------- *)

OPT(u, h, e, f, d) ==
    [udp_payload_size |-> u, higher_bits |-> h, edns0_version |-> e,
     flags |-> f, data |-> d]

Ok(v) == [tag |-> "Ok", val |-> v]
Err(e) == [tag |-> "Err", err |-> e]

\* Cursor::new(buf)
Cursor(buf) == [inner |-> buf, pos |-> 0]

NoRecord == [tag |-> "NoRecord"]
NoResult == [tag |-> "NoResult"]

VARIABLES
    opt,                \* the record at hand (to_bytes's self), or NoRecord
    bytes,              \* what to_bytes returned for opt, or NoResult
    c,                  \* the cursor: the buffer it is over and its position
    before,             \* the cursor as it was when read was called
    result,             \* what read returned, or NoResult
    short_read_to_eof   \* whether a short read_exact leaves the cursor at the
                        \* end of the input (left unspecified by Read::read_exact)

vars == <<opt, bytes, c, before, result, short_read_to_eof>>

(* ------------------------------ decoding ------------------------------- *)

\* read_exact refusing to take the last byte of the buffer
read_exact_strict(cur, n) ==
    IF cur.pos + n < Len(cur.inner)
    THEN [res |-> Ok(SubSeq(cur.inner, cur.pos + 1, cur.pos + n)),
          c |-> [cur EXCEPT !.pos = cur.pos + n]]
    ELSE [res |-> Err("UnexpectedEof"),
          c |-> [cur EXCEPT !.pos = IF short_read_to_eof THEN Len(cur.inner)
                                                          ELSE cur.pos]]

\* Read::read_exact on a Cursor<&[u8]>: n bytes, or UnexpectedEof.  After a
\* short read the position is unspecified: unchanged, or the end of the input.
read_exact(cur, n) ==
    IF cur.pos + n <= Len(cur.inner)
    THEN [res |-> Ok(SubSeq(cur.inner, cur.pos + 1, cur.pos + n)),
          c |-> [cur EXCEPT !.pos = cur.pos + n]]
    ELSE [res |-> Err("UnexpectedEof"),
          c |-> [cur EXCEPT !.pos = IF short_read_to_eof THEN Len(cur.inner)
                                                          ELSE cur.pos]]

\* read_u16 with the bytes in little-endian order
read_u16_le(cur) ==
    LET r == read_exact(cur, 2)
    IN  IF r.res.tag = "Ok"
        THEN [res |-> Ok(r.res.val[2] * U8Mod + r.res.val[1]), c |-> r.c]
        ELSE r

\* c.read_u16::<BigEndian>()
read_u16(cur) ==
    LET r == read_exact(cur, 2)
    IN  IF r.res.tag = "Ok"
        THEN [res |-> Ok(r.res.val[1] * U8Mod + r.res.val[2]), c |-> r.c]
        ELSE r

\* c.read_u8()
read_u8(cur) ==
    LET r == read_exact(cur, 1)
    IN  IF r.res.tag = "Ok" THEN [res |-> Ok(r.res.val[1]), c |-> r.c] ELSE r

\* the `?` of read: From<io::Error> for WireError
WireError(r) == [res |-> Err("IO"), c |-> r.c]

\* read_data stopping at the end of the input instead of failing
read_data_lenient(cur, data_length) ==
    LET n == Min(data_length, Len(cur.inner) - cur.pos)
    IN  [res |-> Ok(SubSeq(cur.inner, cur.pos + 1, cur.pos + n)),
         c |-> [cur EXCEPT !.pos = cur.pos + n]]

\* read_data as one bulk read of data_length bytes
read_data_bulk(cur, data_length) == read_exact(cur, data_length)

\* for _ in 0 .. data_length { data.push(c.read_u8()?); }
\* Each read_u8 that finds a byte takes the next one; the first that finds
\* none is the read_u8 at the end of the input.
read_data(cur, data_length) ==
    IF data_length <= Len(cur.inner) - cur.pos
    THEN [res |-> Ok(SubSeq(cur.inner, cur.pos + 1, cur.pos + data_length)),
          c |-> [cur EXCEPT !.pos = cur.pos + data_length]]
    ELSE read_u8([cur EXCEPT !.pos = Len(cur.inner)])

\* OPT::read
read(cur) ==
    LET udp_payload_size == read_u16(cur) IN
    IF udp_payload_size.res.tag = "Err" THEN WireError(udp_payload_size) ELSE
    LET higher_bits == read_u8(udp_payload_size.c) IN
    IF higher_bits.res.tag = "Err" THEN WireError(higher_bits) ELSE
    LET edns0_version == read_u8(higher_bits.c) IN
    IF edns0_version.res.tag = "Err" THEN WireError(edns0_version) ELSE
    LET flags == read_u16(edns0_version.c) IN
    IF flags.res.tag = "Err" THEN WireError(flags) ELSE
    LET data_length == read_u16(flags.c) IN
    IF data_length.res.tag = "Err" THEN WireError(data_length) ELSE
    LET data == read_data(data_length.c, data_length.res.val) IN
    IF data.res.tag = "Err" THEN WireError(data) ELSE
    [res |-> Ok(OPT(udp_payload_size.res.val, higher_bits.res.val,
                    edns0_version.res.val, flags.res.val, data.res.val)),
     c |-> data.c]

(* ------------------------------ encoding ------------------------------- *)

\* write_u16 with the bytes in little-endian order
write_u16_le(vec, v) == vec \o <<v % U8Mod, v \div U8Mod>>

\* bytes.write_u16::<BigEndian>(v) on a Vec<u8>, whose writes always succeed
write_u16(vec, v) == vec \o <<v \div U8Mod, v % U8Mod>>

\* bytes.write_u8(v)
write_u8(vec, v) == Append(vec, v)

\* write_data writing each payload byte as a 16-bit number
write_data_wide(vec, data) ==
    vec \o [i \in 1..(2 * Len(data)) |-> IF i % 2 = 1 THEN 0 ELSE data[i \div 2]]

\* for b in &self.data { bytes.write_u8(*b)?; }
write_data(vec, data) == vec \o data

\* to_bytes with higher_bits and edns0_version written in the wrong order
to_bytes_swapped(self) ==
    Ok(write_data(write_u16(write_u16(write_u8(write_u8(
          write_u16(<<>>, self.udp_payload_size),
          self.edns0_version), self.higher_bits), self.flags),
          as_u16(Len(self.data))), self.data))

\* to_bytes refusing a payload its length field cannot count
to_bytes_checked(self) ==
    IF Len(self.data) > U16Mod - 1
    THEN Err("InvalidInput")
    ELSE Ok(write_data(write_u16(write_u16(write_u8(write_u8(
              write_u16(<<>>, self.udp_payload_size),
              self.higher_bits), self.edns0_version), self.flags),
              as_u16(Len(self.data))), self.data))

\* OPT::to_bytes
to_bytes(self) ==
    LET b0 == <<>>
        b1 == write_u16(b0, self.udp_payload_size)
        b2 == write_u8(b1, self.higher_bits)
        b3 == write_u8(b2, self.edns0_version)
        b4 == write_u16(b3, self.flags)
        b5 == write_u16(b4, as_u16(Len(self.data)))
        b6 == write_data(b5, self.data)
    IN  Ok(b6)

(* ------------------------------- inputs -------------------------------- *)

\* the byte sequences of at most n bytes over ByteVals
ByteSeqs(n) == UNION {[1..k -> ByteVals] : k \in 0..n}

\* records built by field assignment, with a short payload
Records ==
    {OPT(u, h, e, f, d) : u \in U16Vals, h \in U8Vals, e \in U8Vals,
                          f \in U16Vals, d \in ByteSeqs(MaxLen)}

\* a payload of n bytes, no two neighbours alike
LargeData(n) == [i \in 1..n |-> i % 251]

\* records whose payload is as long as a 16-bit length allows, and longer
LargeRecords ==
    {OPT(1452, 0, 0, f, LargeData(U16Mod - 1 + k)) : f \in {0, 3}, k \in 0..MaxOver}

\* the prefix lengths of a buffer of n bytes that are tried: every one of a
\* short buffer; of a long one the short ones and the longest
Cuts(n) == (0..Min(n, 8 + MaxLen + 1)) \cup {k \in {n - 1, n} : k >= 0}

Take(s, k) == SubSeq(s, 1, k)

\* bytes before the record (already consumed) and after it (not the record's)
Junk(n) == [i \in 1..n |-> U8Mod - 1]
Extra(n) == [i \in 1..n |-> 171]

\* inbound bytes: eight header bytes and some payload, whatever the length
\* field says
Wire(u, h, e, f, n, d) ==
    <<u \div U8Mod, u % U8Mod, h, e, f \div U8Mod, f % U8Mod,
      n \div U8Mod, n % U8Mod>> \o d

\* the length fields of the inbound buffers: payloads present, absent in
\* part, and a length with two different bytes
InputLengths == (0..(MaxLen + 1)) \cup {258}

(* ------------------------------ actions -------------------------------- *)

Init ==
    /\ opt \in Records \cup LargeRecords \cup {NoRecord}
    /\ bytes = NoResult
    /\ c = Cursor(<<>>)
    /\ before = Cursor(<<>>)
    /\ result = NoResult
    /\ short_read_to_eof \in BOOLEAN

\* opt.to_bytes()
ToBytes ==
    /\ opt # NoRecord
    /\ bytes = NoResult
    /\ bytes' = to_bytes(opt)
    /\ UNCHANGED <<opt, c, before, result, short_read_to_eof>>

\* OPT::read(&mut cur), leaving the cursor as read left it
Read(cur) ==
    /\ result = NoResult
    /\ LET r == read(cur)
       IN  /\ result' = r.res
           /\ c' = r.c
    /\ before' = cur
    /\ UNCHANGED <<opt, bytes, short_read_to_eof>>

\* read on a cursor over a buffer holding s consumed bytes, the first k bytes
\* of the encoding and x more bytes
ReadOutput ==
    /\ bytes.tag = "Ok"
    /\ result = NoResult
    /\ \E k \in Cuts(Len(bytes.val)), x \in 0..MaxExtra, s \in 0..MaxSkip :
          Read([inner |-> Junk(s) \o Take(bytes.val, k) \o Extra(x), pos |-> s])

\* read on a cursor over inbound bytes, cut anywhere, s of them consumed
ReadInput ==
    /\ opt = NoRecord
    /\ result = NoResult
    /\ \E u \in U16Vals, h \in U8Vals, e \in U8Vals, f \in U16Vals,
          n \in InputLengths, d \in ByteSeqs(MaxLen) :
          \E k \in 0..(8 + Len(d)), s \in 0..MaxSkip :
             Read([inner |-> Junk(s) \o Take(Wire(u, h, e, f, n, d), k), pos |-> s])

\* the record read becomes the record at hand
TakeRecord ==
    /\ opt = NoRecord
    /\ result.tag = "Ok"
    /\ opt' = result.val
    /\ UNCHANGED <<bytes, c, before, result, short_read_to_eof>>

Next ==
    \/ ToBytes
    \/ ReadOutput
    \/ ReadInput
    \/ TakeRecord

Spec == Init /\ [][Next]_vars

(* --------------------------- what is observed --------------------------- *)

\* read has been called
HasRead == result # NoResult

\* to_bytes has been called
HasBytes == bytes # NoResult

\* the bytes read was given: the buffer from the cursor's position on
Input == SubSeq(before.inner, before.pos + 1, Len(before.inner))

\* the bytes read moved the cursor over
Consumed == SubSeq(before.inner, before.pos + 1, c.pos)

\* the 16-bit big-endian number at offsets i, i + 1 of b
U16At(b, i) == b[i + 1] * U8Mod + b[i + 2]

\* b holds a whole record: eight bytes and the payload its length field counts
Complete(b) == Len(b) >= 8 /\ Len(b) >= 8 + U16At(b, 6)

IsProperPrefix(p, e) == Len(p) < Len(e) /\ p = Take(e, Len(p))

\* the bytes of the fields and payload bytes that fit whole in n bytes
FullyRead(n) ==
    IF n >= 8 THEN n
    ELSE CHOOSE b \in {0, 2, 3, 4, 6} :
            b <= n /\ \A b2 \in {0, 2, 3, 4, 6} : b2 <= n => b2 <= b

(* -------------------------------- claims -------------------------------- *)

\* C1: a record with at most 65535 payload bytes, encoded by to_bytes and
\* read back from a cursor over exactly those bytes, comes back Ok and equal
\* in all five fields.
C1_RoundTrip ==
    (HasBytes /\ HasRead /\ Input = bytes.val /\ Len(opt.data) <= U16Mod - 1)
        => result = Ok(opt)

\* a record with the longest payload that round-trips has gone round
C1_Witness ==
    /\ HasBytes /\ HasRead /\ Input = bytes.val
    /\ Len(opt.data) = U16Mod - 1 /\ opt.flags = 3
    /\ result = Ok(opt)

\* C2 as stated: read on any proper prefix of any encoding to_bytes produced
\* fails with WireError::IO.
C2_TruncationOfAnyEncoding ==
    (HasBytes /\ HasRead /\ IsProperPrefix(Input, bytes.val))
        => result = Err("IO")

\* C2 as amended: read on any proper prefix of the encoding of a record with
\* at most 65535 payload bytes fails with WireError::IO, never returning a
\* record; the empty input and the three bytes 05 AC 00 fail the same way.
C2_Truncation ==
    /\ (HasBytes /\ HasRead /\ IsProperPrefix(Input, bytes.val)
            /\ Len(opt.data) <= U16Mod - 1)
          => result = Err("IO")
    /\ (HasRead /\ Input \in {<<>>, <<5, 172, 0>>}) => result = Err("IO")

\* an encoding cut in the middle of its payload has been read
C2_Witness ==
    /\ HasBytes /\ HasRead /\ IsProperPrefix(Input, bytes.val)
    /\ Len(opt.data) <= U16Mod - 1
    /\ Len(Input) > 8
    /\ result = Err("IO")

\* C3 as stated: in every output of to_bytes the length field at offsets 6..7
\* equals the number of bytes that follow it.
C3_LengthPrefixOfAnyRecord ==
    HasBytes => U16At(bytes.val, 6) = Len(bytes.val) - 8

\* C3 as amended: for a record with at most 65535 payload bytes the length
\* field at offsets 6..7 of to_bytes's output equals the number of payload
\* bytes that follow it, which is the record's data length.
C3_LengthPrefix ==
    (HasBytes /\ Len(opt.data) <= U16Mod - 1)
        => /\ U16At(bytes.val, 6) = Len(bytes.val) - 8
           /\ U16At(bytes.val, 6) = Len(opt.data)

\* a record with a payload of two bytes has been encoded
C3_Witness ==
    HasBytes /\ Len(opt.data) = 2 /\ U16At(bytes.val, 6) = 2

\* C4: on an input holding a whole record, read returns the fields at their
\* offsets, big-endian, and the N payload bytes in wire order; the record has
\* no field for N.
C4_DecodeLayout ==
    /\ (HasRead /\ Complete(Input))
          => /\ result = Ok(OPT(U16At(Input, 0), Input[3], Input[4],
                                U16At(Input, 4),
                                SubSeq(Input, 9, 8 + U16At(Input, 6))))
             /\ DOMAIN result.val = {"udp_payload_size", "higher_bits",
                                     "edns0_version", "flags", "data"}
    /\ (HasRead /\ Input = <<5, 172, 0, 0, 0, 0, 0, 0>>)
          => result = Ok(OPT(1452, 0, 0, 0, <<>>))
    /\ (HasRead /\ Input = <<0, 0, 0, 0, 0, 3, 0, 2, 171, 205>>)
          => result = Ok(OPT(0, 0, 0, 3, <<171, 205>>))

\* the bytes 00 00 00 00 00 03 00 02 AB CD have been read
C4_Witness ==
    HasRead /\ Input = <<0, 0, 0, 0, 0, 3, 0, 2, 171, 205>> /\ result.tag = "Ok"

\* C5: to_bytes returns exactly 8 + len(data) bytes: the four fields
\* big-endian at offsets 0..5, the length at 6..7, then the payload verbatim.
C5_EncodeLayout ==
    /\ HasBytes
          => /\ bytes.tag = "Ok"
             /\ Len(bytes.val) = 8 + Len(opt.data)
             /\ U16At(bytes.val, 0) = opt.udp_payload_size
             /\ bytes.val[3] = opt.higher_bits
             /\ bytes.val[4] = opt.edns0_version
             /\ U16At(bytes.val, 4) = opt.flags
             /\ U16At(bytes.val, 6) = Len(opt.data) % U16Mod
             /\ SubSeq(bytes.val, 9, Len(bytes.val)) = opt.data
    /\ (HasBytes /\ opt = OPT(1452, 0, 0, 0, <<>>))
          => bytes.val = <<5, 172, 0, 0, 0, 0, 0, 0>>

\* a record whose fields all differ from zero has been encoded
C5_Witness ==
    /\ HasBytes /\ opt.udp_payload_size = 1452 /\ opt.higher_bits = U8Mod - 1
    /\ opt.edns0_version = 0 /\ opt.flags = 3 /\ opt.data = <<171, 205>>
    /\ bytes.val = <<5, 172, 255, 0, 0, 3, 0, 2, 171, 205>>

\* C6 as stated: read changes nothing but the cursor's position, which it
\* advances by 8 + N on success and, on failure, by exactly the bytes of the
\* fields and payload bytes that were read whole before the short read.
C6_CursorAtLastWholeField ==
    HasRead
        => /\ c.inner = before.inner
           /\ result.tag = "Ok" => c.pos = before.pos + 8 + U16At(Input, 6)
           /\ result.tag = "Err" => c.pos = before.pos + FullyRead(Len(Input))

\* C6 as amended: read changes nothing but the cursor's position, never the
\* buffer. On success it advances the position by exactly 8 + N, leaving what
\* follows the payload unread. On failure the position is at the end of the
\* last field or payload byte read whole, or else at the end of the input:
\* the two differ only when a two-byte field was cut after its first byte.
C6_CursorEffect ==
    HasRead
        => /\ c.inner = before.inner
           /\ result.tag = "Ok" => c.pos = before.pos + 8 + U16At(Input, 6)
           /\ result.tag = "Err"
                 => /\ c.pos \in {before.pos + FullyRead(Len(Input)), Len(c.inner)}
                    /\ Len(Input) \notin {1, 5, 7}
                          => c.pos = before.pos + FullyRead(Len(Input))

\* a read has failed on a buffer that began with consumed bytes and ended
\* one byte into the length field, and has left the cursor at its end
C6_Witness ==
    /\ HasRead /\ result.tag = "Err"
    /\ before.pos > 0 /\ Len(Input) = 7
    /\ c.pos = Len(c.inner)

\* C7: to_bytes returns Ok for every record, whatever its flags and however
\* long its payload, and leaves the record as it was.
C7_EncodeNeverFails ==
    [][bytes' # bytes => (bytes'.tag = "Ok" /\ opt' = opt)]_vars

\* a record with more than 65535 payload bytes and flag bits set has been
\* encoded
C7_Witness ==
    HasBytes /\ bytes.tag = "Ok" /\ Len(opt.data) > U16Mod - 1 /\ opt.flags = 3

\* C8: read succeeds exactly on the inputs that hold a whole record, whatever
\* the field values; bytes after the payload do not change the record; the
\* only error is WireError::IO.
C8_OnlyShortage ==
    HasRead
        => /\ result.tag = "Ok" <=> Complete(Input)
           /\ result.tag = "Err" => result = Err("IO")
           /\ result.tag = "Ok"
                 => result = read(Cursor(Take(Input, 8 + U16At(Input, 6)))).res

\* a record with every header bit set has been read from a buffer with a
\* byte after the payload
C8_Witness ==
    /\ HasRead /\ result.tag = "Ok"
    /\ result.val.udp_payload_size = U16Mod - 1
    /\ result.val.higher_bits = U8Mod - 1
    /\ result.val.edns0_version = U8Mod - 1
    /\ result.val.flags = U16Mod - 1
    /\ Len(Input) > 8 + U16At(Input, 6)

\* C9: for a record with more than 65535 payload bytes to_bytes writes the
\* length field as len mod 65536 and still appends every payload byte; read
\* of that output succeeds with only the first len mod 65536 payload bytes,
\* a record different from the one encoded.
C9_OversizedPayload ==
    (HasBytes /\ Len(opt.data) > U16Mod - 1)
        => /\ U16At(bytes.val, 6) = Len(opt.data) % U16Mod
           /\ Len(bytes.val) = 8 + Len(opt.data)
           /\ SubSeq(bytes.val, 9, Len(bytes.val)) = opt.data
           /\ (HasRead /\ Input = bytes.val)
                 => /\ result.tag = "Ok"
                    /\ result.val.data = Take(opt.data, Len(opt.data) % U16Mod)
                    /\ [result.val EXCEPT !.data = opt.data] = opt
                    /\ result.val # opt

\* the encoding of a record with 65537 payload bytes has been read back
C9_Witness ==
    /\ HasBytes /\ HasRead /\ Input = bytes.val
    /\ Len(opt.data) = U16Mod + 1
    /\ result.tag = "Ok" /\ Len(result.val.data) = 1

\* C10: to_bytes of a record that read returned gives back exactly the bytes
\* read consumed, the first 8 + N bytes of its input.
C10_CanonicalReencoding ==
    (HasRead /\ result.tag = "Ok" /\ HasBytes /\ opt = result.val)
        => /\ bytes.val = Consumed
           /\ bytes.val = Take(Input, 8 + U16At(Input, 6))

\* a record read from inbound bytes with a payload, consumed bytes before it
\* and a byte after it, has been encoded again
C10_Witness ==
    /\ HasRead /\ result.tag = "Ok" /\ HasBytes /\ opt = result.val
    /\ before.pos > 0
    /\ Len(result.val.data) = 2
    /\ Len(Input) > Len(bytes.val)

====
